---- MODULE Spec2Model ----
(***************************************************************************)
(* Model of the mortality / survival-function core of ACTUNEO:             *)
(*   actuneo/mortality/mortality_table.py    (MortalityTable)              *)
(*   actuneo/mortality/survival_functions.py (SurvivalFunctions)           *)
(*                                                                         *)
(* Floating point numbers are modelled as exact rationals n/d extended     *)
(* with the IEEE special values the code can produce: +inf (1/0),          *)
(* -inf (-1/0) and NaN (0/0).  Rounding is not modelled.                   *)
(***************************************************************************)
EXTENDS Integers, Sequences, FiniteSets, TLC

(***************************************************************************)
(* Bounds of the model.                                                    *)
(***************************************************************************)
MaxAge == 2
MaxN == 3
MaxList == 1

(***************************************************************************)
(* IEEE-like arithmetic on extended rationals.                             *)
(***************************************************************************)
RECURSIVE GCD(_, _)
GCD(a, b) == IF b = 0 THEN a ELSE GCD(b, a % b)

Abs(a) == IF a < 0 THEN -a ELSE a

Sgn(a) == IF a < 0 THEN -1 ELSE IF a > 0 THEN 1 ELSE 0

\* the float n/d, d > 0, in lowest terms
R(n, d) == LET g == GCD(Abs(n), d) IN [n |-> n \div g, d |-> d \div g]

NaN == [n |-> 0, d |-> 0]
PosInf == [n |-> 1, d |-> 0]
NegInf == [n |-> -1, d |-> 0]
Zero == [n |-> 0, d |-> 1]
One == [n |-> 1, d |-> 1]
Half == [n |-> 1, d |-> 2]

IsNaN(a) == a.d = 0 /\ a.n = 0
IsInf(a) == a.d = 0 /\ a.n # 0
IsFinite(a) == a.d > 0

\* the sign of an infinite result
InfOf(s) == IF s < 0 THEN NegInf ELSE PosInf

Neg(a) == [n |-> -a.n, d |-> a.d]

Add(a, b) ==
    IF IsNaN(a) \/ IsNaN(b) THEN NaN
    ELSE IF IsInf(a) THEN (IF IsInf(b) /\ b.n # a.n THEN NaN ELSE a)
    ELSE IF IsInf(b) THEN b
    ELSE R(a.n * b.d + b.n * a.d, a.d * b.d)

Sub(a, b) == Add(a, Neg(b))

Mul(a, b) ==
    IF IsNaN(a) \/ IsNaN(b) THEN NaN
    ELSE IF IsInf(a) \/ IsInf(b)
         THEN (IF a.n = 0 \/ b.n = 0 THEN NaN ELSE InfOf(Sgn(a.n) * Sgn(b.n)))
    ELSE R(a.n * b.n, a.d * b.d)

\* numpy float64 division: a zero divisor gives inf or NaN, never an exception
Div(a, b) ==
    IF IsNaN(a) \/ IsNaN(b) THEN NaN
    ELSE IF IsInf(a) THEN (IF IsInf(b) THEN NaN
                           ELSE InfOf(Sgn(a.n) * (IF b.n < 0 THEN -1 ELSE 1)))
    ELSE IF IsInf(b) THEN Zero
    ELSE IF b.n = 0 THEN (IF a.n = 0 THEN NaN ELSE InfOf(Sgn(a.n)))
    ELSE R(a.n * b.d * Sgn(b.n), a.d * Abs(b.n))

\* a ** k for an integer k >= 0 (x ** 0 is 1 for every x, NaN included)
RECURSIVE Pow(_, _)
Pow(a, k) == IF k <= 0 THEN One ELSE Mul(a, Pow(a, k - 1))

\* float comparisons: every comparison with NaN is false
FEq(a, b) == ~IsNaN(a) /\ ~IsNaN(b) /\ a = b

FLt(a, b) ==
    /\ ~IsNaN(a) /\ ~IsNaN(b)
    /\ a # b
    /\ IF IsInf(a) THEN a.n < 0
       ELSE IF IsInf(b) THEN b.n > 0
       ELSE a.n * b.d < b.n * a.d

FLe(a, b) == FEq(a, b) \/ FLt(a, b)

FGt(a, b) == FLt(b, a)

FGe(a, b) == FLe(b, a)

\* min(a, b) of Python: b if b < a else a
FMin(a, b) == IF FLt(b, a) THEN b ELSE a

(***************************************************************************)
(* Sequence helpers (numpy arrays are modelled as 1-based sequences).      *)
(***************************************************************************)
SetMax(S) == CHOOSE m \in S : \A k \in S : k <= m

SetMin(S) == CHOOSE m \in S : \A k \in S : m <= k

\* np.prod(a[lo:hi]) over the 1-based index range lo .. hi
RECURSIVE Prod(_, _, _)
Prod(a, lo, hi) == IF lo > hi THEN One ELSE Mul(a[lo], Prod(a, lo + 1, hi))

\* the square root of a float that is a perfect square (0, 1/4, 1/16, ...)
ISqrt(m) == CHOOSE r \in 0..m : r * r = m

Sqrt(a) == [n |-> ISqrt(a.n), d |-> ISqrt(a.d)]

\* a ** (h / 2) for a finite a >= 0 and an integer h >= 0 of half years
PowHalf(a, h) == IF h % 2 = 0 THEN Pow(a, h \div 2)
                 ELSE Mul(Pow(a, h \div 2), Sqrt(a))

\* np.where(arr == a)[0], as a set of 1-based indices
Where(arr, a) == {k \in DOMAIN arr : arr[k] = a}

(***************************************************************************)
(* Results of a call: a returned float, or a raised exception.  py tells   *)
(* whether the returned float is a Python float (TRUE) or a numpy float64  *)
(* (FALSE): dividing a Python float by a Python zero raises, while every   *)
(* division that involves a numpy float64 returns inf or NaN.              *)
(***************************************************************************)
Ret(v) == [exc |-> "none", val |-> v, py |-> FALSE]

RetPy(v) == [exc |-> "none", val |-> v, py |-> TRUE]

Raise(e) == [exc |-> e, val |-> NaN, py |-> FALSE]

Raised(r) == r.exc # "none"

(***************************************************************************)
(* State.                                                                  *)
(*   in_ages, in_qx : the arrays handed to MortalityTable(...)             *)
(*   mt             : the MortalityTable object (ok = FALSE: none exists)  *)
(*   sf             : the SurvivalFunctions object bound to mt             *)
(*   pc             : "new" before construction, "failed" when it raised,  *)
(*                    "ready" when a table exists and no call is pending,  *)
(*                    "returned" when a call has returned or raised        *)
(*   call           : the operation called last and its arguments; t is    *)
(*                    counted in half years (tpx), hasn is FALSE when the  *)
(*                    optional term n is omitted (None)                    *)
(*   ret            : what that operation returned or raised               *)
(***************************************************************************)
VARIABLES in_ages, in_qx, mt, sf, pc, call, ret

vars == <<in_ages, in_qx, mt, sf, pc, call, ret>>

NoTable == [ok |-> FALSE, ages |-> <<>>, qx |-> <<>>, px |-> <<>>, lx |-> <<>>, dx |-> <<>>]

NoSF == [ok |-> FALSE, i |-> Zero, v |-> One]

NoCall == [op |-> "none", x |-> 0, n |-> 0, hasn |-> FALSE]

\* the strictly increasing sequence of the elements of S
SortedSeq(S) ==
    CHOOSE s \in [1..Cardinality(S) -> S] :
        \A j, k \in 1..Cardinality(S) : j < k => s[j] < s[k]

\* qx values offered to the constructor: below, inside and above [0, 1]
QxIn == {R(-1, 2), Zero, R(3, 4), One, R(3, 2)}

AgesIn == {SortedSeq(S) : S \in SUBSET (0..MaxAge)}

QxSeqIn == UNION {[1..k -> QxIn] : k \in 0..(MaxAge + 1)}

\* interest rates offered to SurvivalFunctions(...)
Rates == {Zero, One}

(***************************************************************************)
(* MortalityTable.__init__ and _calculate_survival_probabilities           *)
(***************************************************************************)
\* np.all((qx >= 0) & (qx <= 1))
QxInRange(qx) == \A k \in DOMAIN qx : FGe(qx[k], Zero) /\ FLe(qx[k], One)

\* self.px = 1 - self.qx ; lx = cumprod(px[::-1])[::-1] ; lx = lx / lx[0] ;
\* dx = lx * qx.  Called with a non-empty table.
CalculateSurvivalProbabilities(ages, qx) ==
    LET L == Len(qx)
        px == [k \in 1..L |-> Sub(One, qx[k])]
        lxraw == [k \in 1..L |-> Prod(px, k, L)]
        lx == [k \in 1..L |-> Div(lxraw[k], lxraw[1])]
        dx == [k \in 1..L |-> Mul(lx[k], qx[k])]
    IN [ok |-> TRUE, ages |-> ages, qx |-> qx, px |-> px, lx |-> lx, dx |-> dx]

\* a slip in the order of the checks: the range of qx is checked first
MortalityTable_RangeFirst(ages, qx) ==
    IF ~QxInRange(qx)
    THEN [exc |-> "ValueError:range", obj |-> NoTable]
    ELSE IF Len(ages) # Len(qx)
    THEN [exc |-> "ValueError:length", obj |-> NoTable]
    ELSE IF Len(qx) = 0
    THEN [exc |-> "IndexError", obj |-> NoTable]
    ELSE [exc |-> "none", obj |-> CalculateSurvivalProbabilities(ages, qx)]

\* the constructor: the exception it raises ("none" if it returns) and the
\* object it produces
MortalityTable(ages, qx) ==
    IF Len(ages) # Len(qx)
    THEN [exc |-> "ValueError:length", obj |-> NoTable]
    ELSE IF ~QxInRange(qx)
    THEN [exc |-> "ValueError:range", obj |-> NoTable]
    ELSE IF Len(qx) = 0
    THEN [exc |-> "IndexError", obj |-> NoTable]   \* self.lx[0] of an empty array
    ELSE [exc |-> "none", obj |-> CalculateSurvivalProbabilities(ages, qx)]

\* self.mt.ages[-1]
LastAge == mt.ages[Len(mt.ages)]

\* a in self.ages
Tabulated(a) == \E k \in DOMAIN mt.ages : mt.ages[k] = a

\* np.where(self.ages == a)[0][0], for a tabulated age
IndexOf(a) == SetMin(Where(mt.ages, a))

(***************************************************************************)
(* MortalityTable.get_qx (scalar age), get_px, life_expectancy             *)
(***************************************************************************)
\* a slip: an absent age answered with 0.0, the initial value of result
get_qx_ZeroForAbsent(age) ==
    IF Tabulated(age) THEN RetPy(mt.qx[IndexOf(age)]) ELSE RetPy(Zero)

get_qx(age) ==
    IF Tabulated(age) THEN RetPy(mt.qx[IndexOf(age)]) ELSE RetPy(NaN)

\* get_qx called with a list of ages: the result array, or, for a list of
\* length 1, float(result[0]) (the test len(age) == 1 of the return)
get_qx_list(ages) ==
    LET result == [j \in 1..Len(ages) |-> get_qx(ages[j]).val]
    IN IF Len(ages) = 1
       THEN [exc |-> "none", val |-> result[1], py |-> TRUE, scalar |-> TRUE, vals |-> <<>>]
       ELSE [exc |-> "none", val |-> NaN, py |-> FALSE, scalar |-> FALSE, vals |-> result]

\* a slip: the NaN of an absent age replaced by certain survival
get_px_NaNAsOne(age) ==
    LET qx_vals == get_qx(age).val
        px_vals == Sub(One, qx_vals)
    IN IF ~IsNaN(px_vals) THEN RetPy(px_vals) ELSE RetPy(One)

get_px(age) ==
    LET qx_vals == get_qx(age).val
        px_vals == Sub(One, qx_vals)
    IN IF ~IsNaN(px_vals) THEN RetPy(px_vals) ELSE RetPy(NaN)

\* for i in range(k, len(a)): acc += a[i]
RECURSIVE SumFrom(_, _, _)
SumFrom(acc, a, k) == IF k > Len(a) THEN acc ELSE SumFrom(Add(acc, a[k]), a, k + 1)

\* a slip: an absent age answered with the NaN sentinel of get_qx
life_expectancy_Sentinel(age) ==
    IF ~Tabulated(age) THEN RetPy(NaN)
    ELSE LET idx == IndexOf(age)
         IN IF Len(mt.lx) - idx + 1 <= 1 THEN RetPy(Zero)
            ELSE Ret(SumFrom(Half, mt.lx, idx + 1))

life_expectancy(age) ==
    IF ~Tabulated(age) THEN Raise("ValueError")
    ELSE LET idx == IndexOf(age)
         IN IF Len(mt.lx) - idx + 1 <= 1 THEN RetPy(Zero)
            ELSE Ret(SumFrom(Half, mt.lx, idx + 1))

(***************************************************************************)
(* SurvivalFunctions.__init__, npx, nqx                                    *)
(***************************************************************************)
SurvivalFunctions(interest_rate) ==
    [ok |-> TRUE, i |-> interest_rate, v |-> Div(One, Add(One, interest_rate))]

\* the branch x + n > ages[-1]: extrapolation beyond the table
NpxExtrapolated(x, n) ==
    LET last_age_idx == {k \in DOMAIN mt.ages : mt.ages[k] <= x}
    IN IF last_age_idx = {} THEN RetPy(Zero)
       ELSE LET last_idx == SetMax(last_age_idx)
                remaining_years == x + n - mt.ages[last_idx]
                px_remaining == Pow(mt.px[last_idx], remaining_years)
            IN IF Where(mt.ages, x) = {} THEN Raise("IndexError")
               ELSE Ret(Div(Mul(mt.lx[last_idx], px_remaining), mt.lx[IndexOf(x)]))

\* a slip: the rate of age x applied to every year inside the table
NpxTabulated_ConstantRate(x, n) ==
    LET start_idx == Where(mt.ages, x)
        end_idx == Where(mt.ages, x + n)
    IN IF start_idx = {} \/ end_idx = {} THEN RetPy(Zero)
       ELSE RetPy(Pow(mt.px[SetMin(start_idx)], SetMin(end_idx) - SetMin(start_idx)))

\* a slip in the slice: the product runs over the closed range of indices
NpxTabulated_ClosedRange(x, n) ==
    LET start_idx == Where(mt.ages, x)
        end_idx == Where(mt.ages, x + n)
    IN IF start_idx = {} \/ end_idx = {} THEN RetPy(Zero)
       ELSE RetPy(Prod(mt.px, SetMin(start_idx), SetMin(end_idx)))

\* the branch x + n <= ages[-1]: np.prod(px[start_idx:end_idx])
NpxTabulated(x, n) ==
    LET start_idx == Where(mt.ages, x)
        end_idx == Where(mt.ages, x + n)
    IN IF start_idx = {} \/ end_idx = {} THEN RetPy(Zero)
       ELSE RetPy(Prod(mt.px, SetMin(start_idx), SetMin(end_idx) - 1))

\* a slip in the order of the checks: the age is looked up before n is tested
npx_LookupFirst(x, n) ==
    IF Where(mt.ages, x) = {} THEN RetPy(Zero)
    ELSE IF n < 0 THEN RetPy(Zero)
    ELSE IF n = 0 THEN RetPy(One)
    ELSE IF x + n > LastAge THEN NpxExtrapolated(x, n)
    ELSE NpxTabulated(x, n)

npx(x, n) ==
    IF n < 0 THEN RetPy(Zero)
    ELSE IF n = 0 THEN RetPy(One)
    ELSE IF x + n > LastAge THEN NpxExtrapolated(x, n)
    ELSE NpxTabulated(x, n)

nqx(x, n) ==
    LET p == npx(x, n)
    IN IF Raised(p) THEN p ELSE [p EXCEPT !.val = Sub(One, p.val)]

(***************************************************************************)
(* SurvivalFunctions.tpx.  t is given in half years: t = h / 2.            *)
(***************************************************************************)
\* np.exp(-mu * remaining_years) with mu = -np.log(1 - q_last) and
\* remaining_years = rh / 2 >= 0: log(0) is -inf, and inf * 0 is NaN
ExpNegMu(q_last, rh) ==
    LET p_last == Sub(One, q_last)
    IN IF IsNaN(p_last) THEN NaN
       ELSE IF p_last = Zero THEN (IF rh = 0 THEN NaN ELSE Zero)
       ELSE PowHalf(p_last, rh)

\* a slip: the fractional year ignored inside the table
tpx_NoInterpolation(x, h) ==
    IF h = 0 THEN RetPy(One)
    ELSE IF h < 0 THEN RetPy(Zero)
    ELSE LET n == h \div 2
             n_year_survival == npx(x, n)
         IN IF Raised(n_year_survival) THEN n_year_survival
            ELSE IF n + x >= LastAge
            THEN LET last_age == LastAge
                     remaining_years == h - 2 * (last_age - x)
                     q_last == get_qx(last_age).val
                 IN Ret(Mul(n_year_survival.val, ExpNegMu(q_last, remaining_years)))
            ELSE n_year_survival

tpx(x, h) ==
    IF h = 0 THEN RetPy(One)
    ELSE IF h < 0 THEN RetPy(Zero)
    ELSE LET n == h \div 2
             frac == R(h % 2, 2)
             n_year_survival == npx(x, n)
         IN IF Raised(n_year_survival) THEN n_year_survival
            ELSE IF n + x >= LastAge
            THEN LET last_age == LastAge
                     remaining_years == h - 2 * (last_age - x)
                     q_last == get_qx(last_age).val
                 IN Ret(Mul(n_year_survival.val, ExpNegMu(q_last, remaining_years)))
            ELSE LET q_next == get_qx(x + n).val
                     survival_frac == Sub(One, Mul(frac, q_next))
                 IN [n_year_survival EXCEPT !.val = Mul(n_year_survival.val, survival_frac)]

(***************************************************************************)
(* SurvivalFunctions.annuity_due, annuity_immediate.  hasn = FALSE is a    *)
(* call with n omitted (None).                                             *)
(***************************************************************************)
\* for t in range(t, T): annuity += v_t * self.tpx(x, t) ; v_t *= self.v
RECURSIVE AnnuityLoop(_, _, _, _, _)
AnnuityLoop(x, t, T, annuity, v_t) ==
    IF t >= T THEN [exc |-> "none", val |-> annuity, py |-> (T <= 0)]
    ELSE LET p == tpx(x, 2 * t)
         IN IF Raised(p) THEN p
            ELSE AnnuityLoop(x, t + 1, T, Add(annuity, Mul(v_t, p.val)), Mul(v_t, sf.v))

\* a slip: the payment at time 0 discounted by one year
annuity_due_DiscountsFirst(x, hasn, n) ==
    IF ~hasn
    THEN IF Where(mt.ages, x) = {} THEN Raise("IndexError")
         ELSE AnnuityLoop(x, 0, Len(mt.ages) - (IndexOf(x) - 1), Zero, sf.v)
    ELSE AnnuityLoop(x, 0, n, Zero, sf.v)

annuity_due(x, hasn, n) ==
    IF ~hasn
    THEN IF Where(mt.ages, x) = {} THEN Raise("IndexError")
         ELSE AnnuityLoop(x, 0, Len(mt.ages) - (IndexOf(x) - 1), Zero, One)
    ELSE AnnuityLoop(x, 0, n, Zero, One)

annuity_immediate(x, hasn, n) ==
    LET a == annuity_due(x, hasn, n)
    IN IF Raised(a) THEN a ELSE [a EXCEPT !.val = Sub(a.val, One)]

(***************************************************************************)
(* SurvivalFunctions.assurance, net_single_premium                         *)
(***************************************************************************)
\* a / b of two returned floats: two Python floats with b == 0 raise
\* ZeroDivisionError; numpy divides in every other case
TrueDiv(a, b) ==
    IF a.py /\ b.py /\ b.val = Zero THEN Raise("ZeroDivisionError")
    ELSE [exc |-> "none", val |-> Div(a.val, b.val), py |-> (a.py /\ b.py)]

\* q_xt = 1 - npx(x, t) / npx(x, t-1) if t > 1 else 1 - npx(x, 1)
DeathInYear(x, t) ==
    IF t > 1
    THEN LET a == npx(x, t)
             b == npx(x, t - 1)
         IN IF Raised(a) THEN a
            ELSE IF Raised(b) THEN b
            ELSE LET q == TrueDiv(a, b)
                 IN IF Raised(q) THEN q ELSE [q EXCEPT !.val = Sub(One, q.val)]
    ELSE LET a == npx(x, 1)
         IN IF Raised(a) THEN a ELSE [a EXCEPT !.val = Sub(One, a.val)]

\* a slip: the yearly increments floored at 0 as well as capped at 1
RECURSIVE AssuranceLoop_Floored(_, _, _, _, _)
AssuranceLoop_Floored(x, t, max_t, assurance, v_t) ==
    IF t > max_t THEN RetPy(assurance)
    ELSE LET q_xt == DeathInYear(x, t)
             q_cap == FMin(q_xt.val, One)
         IN IF Raised(q_xt) THEN q_xt
            ELSE AssuranceLoop_Floored(x, t + 1, max_t,
                     Add(assurance, Mul(v_t, IF FLt(q_cap, Zero) THEN Zero ELSE q_cap)),
                     Mul(v_t, sf.v))

\* for t in range(t, max_t + 1): assurance += v_t * min(q_xt, 1.0) ; v_t *= self.v
RECURSIVE AssuranceLoop(_, _, _, _, _)
AssuranceLoop(x, t, max_t, assurance, v_t) ==
    IF t > max_t THEN RetPy(assurance)
    ELSE LET q_xt == DeathInYear(x, t)
         IN IF Raised(q_xt) THEN q_xt
            ELSE AssuranceLoop(x, t + 1, max_t,
                               Add(assurance, Mul(v_t, FMin(q_xt.val, One))),
                               Mul(v_t, sf.v))

\* a slip: the whole-life horizon counts the age x itself
assurance_CountsEntryAge(x, hasn, n) ==
    IF ~hasn
    THEN IF Where(mt.ages, x) = {} THEN Raise("IndexError")
         ELSE AssuranceLoop(x, 1, Len(mt.ages) - (IndexOf(x) - 1), Zero, sf.v)
    ELSE AssuranceLoop(x, 1, n, Zero, sf.v)

assurance(x, hasn, n) ==
    IF ~hasn
    THEN IF Where(mt.ages, x) = {} THEN Raise("IndexError")
         ELSE AssuranceLoop(x, 1, Len(mt.ages) - (IndexOf(x) - 1) - 1, Zero, sf.v)
    ELSE AssuranceLoop(x, 1, n, Zero, sf.v)

net_single_premium(x, hasn, n) == assurance(x, hasn, n)

(***************************************************************************)
(* Reserves(mt, interest_rate) and LifeAssurance(mt, interest_rate) hold   *)
(* self.sf = SurvivalFunctions(mt, interest_rate) and self.v = 1 / (1 +    *)
(* interest_rate): sf stands for that object, sf.v for self.v.             *)
(***************************************************************************)
\* max(0, reserve): the first argument is kept unless reserve > 0 (NaN is not)
MaxZero(reserve) == IF FGt(reserve, Zero) THEN reserve ELSE Zero

\* the common tail of the prospective reserves
ReserveOf(remaining_assurance, annuity, annual_premium) ==
    IF Raised(annuity) THEN annuity
    ELSE IF FEq(annuity.val, Zero)
    THEN Ret(Sub(remaining_assurance, annual_premium))
    ELSE Ret(MaxZero(Div(Sub(remaining_assurance, Mul(annual_premium, annuity.val)),
                         annuity.val)))

\* remaining_assurance = self.sf.assurance(...) * sum_assured, then the tail
AssuranceReserveOf(a, annuity, annual_premium, sum_assured) ==
    IF Raised(a) THEN a
    ELSE ReserveOf(Mul(a.val, sum_assured), annuity, annual_premium)

\* remaining_assurance = term_assurance + pure_endowment, then the tail
EndowmentReserveOf(a, p, v_n, annuity, annual_premium, sum_assured) ==
    IF Raised(a) THEN a
    ELSE IF Raised(p) THEN p
    ELSE ReserveOf(Add(Mul(a.val, sum_assured), Mul(Mul(p.val, v_n), sum_assured)),
                   annuity, annual_premium)

prospective_reserve_whole_life(x, duration, annual_premium, sum_assured) ==
    LET current_age == x + duration
    IN AssuranceReserveOf(assurance(current_age, FALSE, 0),
                          annuity_immediate(current_age, FALSE, 0),
                          annual_premium, sum_assured)

prospective_reserve_term(x, n, duration, annual_premium, sum_assured) ==
    LET current_age == x + duration
        remaining_term == n - duration
    IN IF remaining_term <= 0 THEN RetPy(Zero)
       ELSE AssuranceReserveOf(assurance(current_age, TRUE, remaining_term),
                               annuity_immediate(current_age, TRUE, remaining_term),
                               annual_premium, sum_assured)

prospective_reserve_endowment(x, n, duration, annual_premium, sum_assured) ==
    LET current_age == x + duration
        remaining_term == n - duration
    IN IF remaining_term <= 0 THEN RetPy(Zero)
       ELSE EndowmentReserveOf(assurance(current_age, TRUE, remaining_term),
                               npx(current_age, remaining_term),
                               Pow(sf.v, remaining_term),
                               annuity_immediate(current_age, TRUE, remaining_term),
                               annual_premium, sum_assured)

(***************************************************************************)
(* LifeAssurance.term_assurance, pure_endowment, endowment_assurance       *)
(***************************************************************************)
term_assurance(x, n) == assurance(x, TRUE, n)

\* self.v ** n: a negative power of a float
VPow(n) == IF n >= 0 THEN Pow(sf.v, n) ELSE Div(One, Pow(sf.v, -n))

\* r * k for a returned float r
Times(r, k) == IF Raised(r) THEN r ELSE Ret(Mul(r.val, k))

\* t + e for two returned floats
Plus(t, e) ==
    IF Raised(t) THEN t
    ELSE IF Raised(e) THEN e
    ELSE Ret(Add(t.val, e.val))

\* a slip: the survival benefit is not discounted
pure_endowment_Undiscounted(x, n) == Times(npx(x, n), One)

\* survival_prob * self.v ** n
pure_endowment(x, n) == Times(npx(x, n), VPow(n))

endowment_assurance(x, n) == Plus(term_assurance(x, n), pure_endowment(x, n))

(***************************************************************************)
(* Arguments of the calls.                                                 *)
(***************************************************************************)
AgeArgs == (-1)..(MaxAge + 1)

NArgs == (-1)..MaxN

\* t of tpx, in half years
HalfArgs == (-1)..(2 * MaxN)

\* the optional term n: given, or omitted
TermArgs == {[hasn |-> TRUE, n |-> n] : n \in NArgs} \cup {[hasn |-> FALSE, n |-> 0]}

\* the lists of ages handed to get_qx
AgeListArgs == UNION {[1..k -> AgeArgs] : k \in 0..MaxList}

\* the entry ages and years in force of a policy, its term, its annual premium
EntryAgeArgs == 0..MaxAge

DurationArgs == {0, 1}

PolicyTermArgs == {1, 2}

PremiumArgs == {Zero, R(2000, 1)}

\* sum_assured: float = 1000.0, for a call that leaves it out
SumAssuredDefault == 1000

(***************************************************************************)
(* Actions: construction, then any sequence of calls.  A call returns (or  *)
(* raises) to the caller, who takes the result before the next call.       *)
(***************************************************************************)
Init ==
    /\ in_ages \in AgesIn
    /\ in_qx \in QxSeqIn
    /\ mt = NoTable
    /\ sf = NoSF
    /\ pc = "new"
    /\ call = NoCall
    /\ ret = Ret(NaN)

Construct ==
    /\ pc = "new"
    /\ LET r == MortalityTable(in_ages, in_qx)
       IN /\ mt' = r.obj
          /\ pc' = IF r.exc = "none" THEN "ready" ELSE "failed"
          /\ ret' = Raise(r.exc)
    /\ call' = [op |-> "__init__", x |-> 0, n |-> 0, hasn |-> FALSE]
    /\ UNCHANGED <<in_ages, in_qx, sf>>

NewSurvivalFunctions ==
    /\ pc = "ready"
    /\ ~sf.ok
    /\ \E interest_rate \in Rates : sf' = SurvivalFunctions(interest_rate)
    /\ UNCHANGED <<in_ages, in_qx, mt, pc, call, ret>>

\* a slip: a call that leaves the survivors column renormalised in place
TableCall_WritesLx(c, r) ==
    /\ pc = "ready"
    /\ call' = c
    /\ ret' = r
    /\ pc' = "returned"
    /\ mt' = [mt EXCEPT !.lx = mt.px]
    /\ UNCHANGED <<in_ages, in_qx, sf>>

\* a method of MortalityTable is called and returns r
TableCall(c, r) ==
    /\ pc = "ready"
    /\ call' = c
    /\ ret' = r
    /\ pc' = "returned"
    /\ UNCHANGED <<in_ages, in_qx, mt, sf>>

\* a method of SurvivalFunctions is called and returns r
SFCall(c, r) == sf.ok /\ TableCall(c, r)

CallGetQx ==
    \E age \in AgeArgs :
        TableCall([op |-> "get_qx", x |-> age, n |-> 0, hasn |-> FALSE], get_qx(age))

CallGetQxList ==
    \E ages \in AgeListArgs :
        TableCall([op |-> "get_qx_list", x |-> 0, n |-> 0, hasn |-> FALSE, ages |-> ages],
                  get_qx_list(ages))

CallGetPx ==
    \E age \in AgeArgs :
        TableCall([op |-> "get_px", x |-> age, n |-> 0, hasn |-> FALSE], get_px(age))

CallLifeExpectancy ==
    \E age \in AgeArgs :
        TableCall([op |-> "life_expectancy", x |-> age, n |-> 0, hasn |-> FALSE],
                  life_expectancy(age))

CallNpx ==
    \E x \in AgeArgs, n \in NArgs :
        SFCall([op |-> "npx", x |-> x, n |-> n, hasn |-> TRUE], npx(x, n))

CallNqx ==
    \E x \in AgeArgs, n \in NArgs :
        SFCall([op |-> "nqx", x |-> x, n |-> n, hasn |-> TRUE], nqx(x, n))

CallTpx ==
    \E x \in AgeArgs, h \in HalfArgs :
        SFCall([op |-> "tpx", x |-> x, n |-> h, hasn |-> TRUE], tpx(x, h))

CallAnnuityDue ==
    \E x \in AgeArgs, a \in TermArgs :
        SFCall([op |-> "annuity_due", x |-> x, n |-> a.n, hasn |-> a.hasn],
               annuity_due(x, a.hasn, a.n))

CallAnnuityImmediate ==
    \E x \in AgeArgs, a \in TermArgs :
        SFCall([op |-> "annuity_immediate", x |-> x, n |-> a.n, hasn |-> a.hasn],
               annuity_immediate(x, a.hasn, a.n))

CallAssurance ==
    \E x \in AgeArgs, a \in TermArgs :
        SFCall([op |-> "assurance", x |-> x, n |-> a.n, hasn |-> a.hasn],
               assurance(x, a.hasn, a.n))

CallNetSinglePremium ==
    \E x \in AgeArgs, a \in TermArgs :
        SFCall([op |-> "net_single_premium", x |-> x, n |-> a.n, hasn |-> a.hasn],
               net_single_premium(x, a.hasn, a.n))

CallProspectiveReserveWholeLife ==
    \E x \in EntryAgeArgs, d \in DurationArgs, P \in PremiumArgs :
        SFCall([op |-> "prospective_reserve_whole_life", x |-> x, n |-> 0,
                hasn |-> FALSE, duration |-> d, annual_premium |-> P],
               prospective_reserve_whole_life(x, d, P, R(SumAssuredDefault, 1)))

CallProspectiveReserveTerm ==
    \E x \in EntryAgeArgs, n \in PolicyTermArgs, d \in DurationArgs, P \in PremiumArgs :
        SFCall([op |-> "prospective_reserve_term", x |-> x, n |-> n,
                hasn |-> TRUE, duration |-> d, annual_premium |-> P],
               prospective_reserve_term(x, n, d, P, R(SumAssuredDefault, 1)))

CallProspectiveReserveEndowment ==
    \E x \in EntryAgeArgs, n \in PolicyTermArgs, d \in DurationArgs, P \in PremiumArgs :
        SFCall([op |-> "prospective_reserve_endowment", x |-> x, n |-> n,
                hasn |-> TRUE, duration |-> d, annual_premium |-> P],
               prospective_reserve_endowment(x, n, d, P, R(SumAssuredDefault, 1)))

CallEndowmentAssurance ==
    \E x \in AgeArgs, n \in NArgs :
        SFCall([op |-> "endowment_assurance", x |-> x, n |-> n, hasn |-> TRUE],
               endowment_assurance(x, n))

\* the caller takes the result; the objects are ready for the next call
TakeResult ==
    /\ pc = "returned"
    /\ pc' = "ready"
    /\ call' = NoCall
    /\ ret' = Ret(NaN)
    /\ UNCHANGED <<in_ages, in_qx, mt, sf>>

Next ==
    \/ Construct
    \/ NewSurvivalFunctions
    \/ CallGetQx
    \/ CallGetQxList
    \/ CallGetPx
    \/ CallLifeExpectancy
    \/ CallNpx
    \/ CallNqx
    \/ CallTpx
    \/ CallAnnuityDue
    \/ CallAnnuityImmediate
    \/ CallAssurance
    \/ CallNetSinglePremium
    \/ CallProspectiveReserveWholeLife
    \/ CallProspectiveReserveTerm
    \/ CallProspectiveReserveEndowment
    \/ CallEndowmentAssurance
    \/ TakeResult

Spec == Init /\ [][Next]_vars

(***************************************************************************)
(* Vocabulary of the claims.                                               *)
(***************************************************************************)
\* the operation op has just returned or raised
Returned(op) == pc = "returned" /\ call.op = op

\* every lx of the table is a number (no NaN, no inf)
LxFinite == \A k \in DOMAIN mt.lx : IsFinite(mt.lx[k])

\* the tabulated ages are consecutive integers
ConsecutiveAges == \A k \in 1..(Len(mt.ages) - 1) : mt.ages[k + 1] = mt.ages[k] + 1

\* the product of (1 - qx) over the indices lo .. hi, taken from the top
RECURSIVE SurvivalProduct(_, _)
SurvivalProduct(lo, hi) ==
    IF hi < lo THEN One
    ELSE Mul(SurvivalProduct(lo, hi - 1), Sub(One, mt.qx[hi]))

\* the sum of lx[j] / lx[k] over the indices j = lo .. Len(lx)
RECURSIVE SurvivorRatios(_, _)
SurvivorRatios(k, lo) ==
    IF lo > Len(mt.lx) THEN Zero
    ELSE Add(Div(mt.lx[lo], mt.lx[k]), SurvivorRatios(k, lo + 1))

(***************************************************************************)
(* C1: no operation of SurvivalFunctions, nor get_qx or get_px, ever       *)
(* raises: for every table, age x and n each returns a value.              *)
(***************************************************************************)
C1_NeverRaises ==
    (pc = "returned" /\ call.op # "life_expectancy") => ret.exc = "none"

(***************************************************************************)
(* C2: for a tabulated age x and n >= 0, npx(x, n + 1) <= npx(x, n), also  *)
(* where x + n crosses or lies beyond the last age.  Stated on the tables  *)
(* of consecutive ages whose lx are numbers, so that no violation rests on *)
(* an untabulated age inside the table or on a NaN.                        *)
(***************************************************************************)
C2_NpxNonIncreasing ==
    (Returned("npx") /\ Tabulated(call.x) /\ call.n >= 0
        /\ ConsecutiveAges /\ LxFinite)
    => FLe(npx(call.x, call.n + 1).val, ret.val)

(***************************************************************************)
(* C3: for a tabulated age x and n > 0 with x + n beyond the last age,     *)
(* npx(x, n) is (lx at the last age / lx at x) times px of the last age to *)
(* the power x + n - last age.  Stated on tables whose lx are numbers.     *)
(***************************************************************************)
C3_ExtrapolationFromLastAge ==
    (Returned("npx") /\ Tabulated(call.x) /\ call.n > 0
        /\ call.x + call.n > LastAge /\ LxFinite)
    => LET last == Len(mt.ages)
       IN /\ ret.exc = "none"
          /\ ret.val = Mul(Div(mt.lx[last], mt.lx[IndexOf(call.x)]),
                           Pow(Sub(One, mt.qx[last]), call.x + call.n - LastAge))

(***************************************************************************)
(* C4: for n > 0 with x + n beyond the last age and x not a tabulated age  *)
(* (below, between or above the tabulated ages), npx(x, n) returns 0.0.    *)
(***************************************************************************)
C4_UntabulatedBeyondIsZero ==
    (Returned("npx") /\ call.n > 0 /\ call.x + call.n > LastAge
        /\ ~Tabulated(call.x))
    => (ret.exc = "none" /\ ret.val = Zero)

(***************************************************************************)
(* C5: for n > 0 with x + n not beyond the last age, npx(x, n) is the      *)
(* product of px over the indices [index(x), index(x + n)) when x and      *)
(* x + n are both tabulated, and 0.0, without raising, otherwise.          *)
(***************************************************************************)
C5_NpxInsideTable ==
    (Returned("npx") /\ call.n > 0 /\ call.x + call.n <= LastAge)
    => /\ ret.exc = "none"
       /\ IF Tabulated(call.x) /\ Tabulated(call.x + call.n)
          THEN ret.val = SurvivalProduct(IndexOf(call.x), IndexOf(call.x + call.n) - 1)
          ELSE ret.val = Zero

C5_Witness ==
    /\ Returned("npx") /\ call.n >= 2 /\ call.x + call.n <= LastAge
    /\ Tabulated(call.x) /\ Tabulated(call.x + call.n)
    /\ ret.val = R(1, 16)

(***************************************************************************)
(* C6: npx(x, 0) is 1.0 and npx(x, n) is 0.0 for n < 0, for every age x,   *)
(* tabulated or not: the table is not consulted.                           *)
(***************************************************************************)
C6_NpxDegenerateTerms ==
    Returned("npx")
    => /\ call.n = 0 => (ret.exc = "none" /\ ret.val = One)
       /\ call.n < 0 => (ret.exc = "none" /\ ret.val = Zero)

C6_Witness ==
    Returned("npx") /\ call.n = 0 /\ ~Tabulated(call.x) /\ ret.val = One

(***************************************************************************)
(* C7: construction raises a validation error when the lengths of ages and *)
(* qx differ or a qx lies outside [0, 1], and then produces no table; the  *)
(* lengths are checked before the range.                                   *)
(***************************************************************************)
C7_ConstructionValidates ==
    LET lengths_differ == Len(in_ages) # Len(in_qx)
        out_of_range == \E k \in DOMAIN in_qx : in_qx[k].n < 0 \/ in_qx[k].n > in_qx[k].d
    IN (pc # "new" /\ (lengths_differ \/ out_of_range))
       => /\ pc = "failed"
          /\ ~mt.ok
          /\ call.op = "__init__"
          /\ ret.exc = IF lengths_differ THEN "ValueError:length" ELSE "ValueError:range"

C7_Witness ==
    /\ pc = "failed"
    /\ Len(in_ages) # Len(in_qx)
    /\ \E k \in DOMAIN in_qx : in_qx[k].n > in_qx[k].d
    /\ ret.exc = "ValueError:length"

(***************************************************************************)
(* C8: for a tabulated age at index k, life_expectancy is 0.5 plus the sum *)
(* over the later indices j > k of lx[j] / lx[k], and 0 at the last age.   *)
(* Stated on tables whose lx are numbers.                                  *)
(***************************************************************************)
C8_LifeExpectancyOfRatios ==
    (Returned("life_expectancy") /\ Tabulated(call.x) /\ LxFinite)
    => LET k == IndexOf(call.x)
       IN /\ ret.exc = "none"
          /\ ret.val = IF k = Len(mt.ages) THEN Zero
                       ELSE Add(Half, SurvivorRatios(k, k + 1))

(***************************************************************************)
(* C9: for every valid table and tabulated ages a < b,                     *)
(* life_expectancy(a) > life_expectancy(b).                                *)
(***************************************************************************)
C9_LifeExpectancyDecreasing ==
    (Returned("life_expectancy") /\ Tabulated(call.x))
    => \A b \in AgeArgs :
          (Tabulated(b) /\ call.x < b) => FGt(ret.val, life_expectancy(b).val)

(***************************************************************************)
(* C10: life_expectancy raises for every age that is not in ages, and the  *)
(* table is then still the one construction produced.                      *)
(***************************************************************************)
C10_LifeExpectancyRaises ==
    (Returned("life_expectancy") /\ ~Tabulated(call.x))
    => /\ ret.exc = "ValueError"
       /\ mt = CalculateSurvivalProbabilities(in_ages, in_qx)

C10_Witness ==
    /\ Returned("life_expectancy") /\ ~Tabulated(call.x)
    /\ call.x > mt.ages[1] /\ call.x < LastAge
    /\ ret.exc = "ValueError"

(***************************************************************************)
(* C11: get_qx(age) returns the qx handed to the constructor for that age  *)
(* when age is in ages, and NaN, without raising, when it is not.          *)
(***************************************************************************)
C11_GetQxRoundTrip ==
    Returned("get_qx")
    => /\ ret.exc = "none"
       /\ \A k \in DOMAIN in_ages : in_ages[k] = call.x => ret.val = in_qx[k]
       /\ (\A k \in DOMAIN in_ages : in_ages[k] # call.x) => IsNaN(ret.val)

C11_Witness ==
    /\ Returned("get_qx")
    /\ Len(in_ages) >= 2 /\ in_ages[2] = call.x /\ in_qx[1] # in_qx[2]
    /\ ret.val = in_qx[2]

(***************************************************************************)
(* C12: get_qx keeps the shape of its argument: a sequence of k ages gives *)
(* a sequence of exactly k values in the same order, for every k, k = 1    *)
(* included (and a scalar age gives a scalar).                             *)
(***************************************************************************)
C12_GetQxKeepsShape ==
    Returned("get_qx_list")
    => /\ ret.exc = "none"
       /\ ~ret.scalar
       /\ Len(ret.vals) = Len(call.ages)
       /\ \A j \in 1..Len(call.ages) : ret.vals[j] = get_qx(call.ages[j]).val

(***************************************************************************)
(* C13: in every constructed table px[i] + qx[i] = 1 at every index;       *)
(* get_px(age) is 1 - qx of that age for a tabulated age, and it is NaN    *)
(* exactly when the age is not tabulated, which is exactly when get_qx is  *)
(* NaN.  (Exact arithmetic: the rounding of 1 - qx is not modelled.)       *)
(***************************************************************************)
C13_PxComplementsQx ==
    /\ mt.ok => \A i \in DOMAIN mt.qx : Add(mt.px[i], mt.qx[i]) = One
    /\ Returned("get_px")
       => /\ ret.exc = "none"
          /\ \A k \in DOMAIN in_ages :
                in_ages[k] = call.x => ret.val = Sub(One, in_qx[k])
          /\ IsNaN(ret.val) <=> (\A k \in DOMAIN in_ages : in_ages[k] # call.x)
          /\ IsNaN(ret.val) <=> IsNaN(get_qx(call.x).val)

C13_Witness ==
    /\ Returned("get_px")
    /\ Len(in_ages) >= 2 /\ in_ages[2] = call.x /\ in_qx[2] = R(3, 4)
    /\ ret.val = R(1, 4)

(***************************************************************************)
(* What a call c returns, as a function of the two objects and of the      *)
(* arguments alone.                                                        *)
(***************************************************************************)
ResultOf(c) ==
    CASE c.op = "get_qx" -> get_qx(c.x)
      [] c.op = "get_qx_list" -> get_qx_list(c.ages)
      [] c.op = "get_px" -> get_px(c.x)
      [] c.op = "life_expectancy" -> life_expectancy(c.x)
      [] c.op = "npx" -> npx(c.x, c.n)
      [] c.op = "nqx" -> nqx(c.x, c.n)
      [] c.op = "tpx" -> tpx(c.x, c.n)
      [] c.op = "annuity_due" -> annuity_due(c.x, c.hasn, c.n)
      [] c.op = "annuity_immediate" -> annuity_immediate(c.x, c.hasn, c.n)
      [] c.op = "assurance" -> assurance(c.x, c.hasn, c.n)
      [] c.op = "net_single_premium" -> net_single_premium(c.x, c.hasn, c.n)
      [] c.op = "prospective_reserve_whole_life" ->
            prospective_reserve_whole_life(c.x, c.duration, c.annual_premium,
                                           R(SumAssuredDefault, 1))
      [] c.op = "prospective_reserve_term" ->
            prospective_reserve_term(c.x, c.n, c.duration, c.annual_premium,
                                     R(SumAssuredDefault, 1))
      [] c.op = "prospective_reserve_endowment" ->
            prospective_reserve_endowment(c.x, c.n, c.duration, c.annual_premium,
                                          R(SumAssuredDefault, 1))
      [] c.op = "endowment_assurance" -> endowment_assurance(c.x, c.n)

(***************************************************************************)
(* C14: once the table is constructed, a call of any of the ten methods,   *)
(* a failing call included, and the taking of its result leave ages, qx,   *)
(* px, lx, dx, i and v as they were, and the call returns what the objects *)
(* and its arguments determine, whatever was called before.                *)
(***************************************************************************)
C14_CallsArePure ==
    [][(pc' = "returned" \/ pc = "returned")
       => /\ mt' = mt
          /\ sf' = sf
          /\ pc' = "returned" => ret' = ResultOf(call')]_vars

C14_Witness ==
    /\ pc = "returned" /\ call.op = "annuity_due" /\ ret.exc # "none"
    /\ mt = CalculateSurvivalProbabilities(in_ages, in_qx)
    /\ Len(mt.lx) >= 2
    /\ sf = SurvivalFunctions(sf.i)

\* f[lo] + ... + f[hi], from 0.0, in that order
RECURSIVE Sigma(_, _, _)
Sigma(f, lo, hi) == IF hi < lo THEN Zero ELSE Add(Sigma(f, lo, hi - 1), f[hi])

\* the number of tabulated ages from x to the end of the table, x included
AgesFrom(x) == Cardinality({k \in DOMAIN mt.ages : mt.ages[k] >= x})

(***************************************************************************)
(* C15: annuity_due(x, n) is the sum over t = 0 .. T-1 of v^t * tpx(x, t), *)
(* with T = n when n is given and T = the number of tabulated ages from x  *)
(* on (x tabulated) when n is omitted; it raises when one of those tpx     *)
(* raises.  In particular annuity_due(x, 0) = 0 and annuity_due(x, 1) = 1. *)
(***************************************************************************)
C15_AnnuityDueIsTheSum ==
    (Returned("annuity_due") /\ (call.hasn \/ Tabulated(call.x)))
    => LET T == IF call.hasn THEN call.n ELSE AgesFrom(call.x)
           p == [t \in 0..(T - 1) |-> tpx(call.x, 2 * t)]
           term == [t \in 0..(T - 1) |-> Mul(Pow(sf.v, t), p[t].val)]
       IN /\ Raised(ret) <=> \E t \in 0..(T - 1) : Raised(p[t])
          /\ ~Raised(ret) => ret.val = Sigma(term, 0, T - 1)
          /\ (call.hasn /\ call.n = 0) => (~Raised(ret) /\ ret.val = Zero)
          /\ (call.hasn /\ call.n = 1) => (~Raised(ret) /\ ret.val = One)

C15_Witness ==
    /\ Returned("annuity_due") /\ ~call.hasn /\ Tabulated(call.x)
    /\ AgesFrom(call.x) = 3
    /\ sf.v = Half
    /\ ret.val = R(25, 16)

(***************************************************************************)
(* C16: on a table of consecutive ages, for a tabulated age x and a term   *)
(* n >= 0 smaller than the number of tabulated ages from x on, the         *)
(* whole-life annuity is at least the term annuity:                        *)
(* annuity_due(x) >= annuity_due(x, n).                                    *)
(***************************************************************************)
C16_WholeLifeDominatesTerm ==
    (/\ Returned("annuity_due") /\ call.hasn
     /\ ConsecutiveAges /\ Tabulated(call.x)
     /\ call.n >= 0 /\ call.n < AgesFrom(call.x))
    => LET whole == annuity_due(call.x, FALSE, 0)
       IN ~Raised(whole) /\ ~Raised(ret) /\ FGe(whole.val, ret.val)

(***************************************************************************)
(* C17: on a table of consecutive ages, for a tabulated age x and a term   *)
(* n >= 1 or n omitted, annuity_due(x, n) - annuity_immediate(x, n) = 1.0. *)
(***************************************************************************)
C17_DueMinusImmediateIsOne ==
    (/\ Returned("annuity_immediate")
     /\ ConsecutiveAges /\ Tabulated(call.x)
     /\ (~call.hasn \/ call.n >= 1))
    => LET due == annuity_due(call.x, call.hasn, call.n)
       IN ~Raised(due) /\ ~Raised(ret) /\ FEq(Sub(due.val, ret.val), One)

(***************************************************************************)
(* C18: assurance(x, n) is the sum over t = 1 .. H of v^t * min(q_t, 1.0), *)
(* with q_1 = 1 - npx(x, 1), q_t = 1 - npx(x, t) / npx(x, t-1) for t > 1,  *)
(* H = n when n is given and H = the number of tabulated ages after x (x   *)
(* tabulated) when n is omitted; the q_t are capped at 1.0 and not floored *)
(* at 0.  It raises when one of the npx or one of the divisions raises.    *)
(***************************************************************************)
C18_AssuranceIsTheSum ==
    (Returned("assurance") /\ (call.hasn \/ Tabulated(call.x)))
    => LET H == IF call.hasn THEN call.n ELSE AgesFrom(call.x) - 1
           p == [t \in 0..H |-> npx(call.x, t)]
           q == [t \in 1..H |->
                    IF t = 1 THEN Sub(One, p[1].val)
                    ELSE Sub(One, Div(p[t].val, p[t - 1].val))]
           fails == \E t \in 1..H :
                       \/ Raised(p[t])
                       \/ t > 1 /\ Raised(TrueDiv(p[t], p[t - 1]))
           term == [t \in 1..H |->
                       Mul(Pow(sf.v, t), IF FGt(q[t], One) THEN One ELSE q[t])]
       IN /\ Raised(ret) <=> fails
          /\ ~Raised(ret) => ret.val = Sigma(term, 1, H)

C18_Witness ==
    /\ Returned("assurance") /\ call.hasn /\ call.n = 3
    /\ sf.v = Half
    /\ ret.val = R(-3, 16)

(***************************************************************************)
(* C19: on a table of consecutive ages with finite lx, for a tabulated age *)
(* x and a term n >= 0, n larger than the number of tabulated ages after x *)
(* included, the term assurance is at most the whole-life assurance:       *)
(* assurance(x, n) <= assurance(x).                                        *)
(***************************************************************************)
C19_TermAssuranceAtMostWholeLife ==
    (/\ Returned("assurance") /\ call.hasn /\ call.n >= 0
     /\ ConsecutiveAges /\ LxFinite /\ Tabulated(call.x))
    => LET whole == assurance(call.x, FALSE, 0)
       IN (~Raised(whole) /\ ~Raised(ret)) => FLe(ret.val, whole.val)

(***************************************************************************)
(* C20: tpx(x, 0) = 1.0 and tpx(x, t) = 0.0 for t < 0, for every x.  For   *)
(* t > 0 with n the integer part of t, frac = t - n and x + n below the    *)
(* last tabulated age, tpx(x, t) = npx(x, n) * (1 - frac * qx(x + n)) (and *)
(* tpx raises exactly when that npx raises); so for 0 < t < 1 and such a   *)
(* tabulated x, tpx(x, t) >= npx(x, 1).  (t is counted in half years.)     *)
(***************************************************************************)
C20_TpxInterpolates ==
    Returned("tpx")
    => LET h == call.n
           n == h \div 2
           frac == R(h % 2, 2)
           base == npx(call.x, n)
       IN /\ h = 0 => (~Raised(ret) /\ ret.val = One)
          /\ h < 0 => (~Raised(ret) /\ ret.val = Zero)
          /\ (h > 0 /\ call.x + n < LastAge)
             => /\ Raised(ret) <=> Raised(base)
                /\ ~Raised(ret)
                   => ret.val = Mul(base.val,
                                    Sub(One, Mul(frac, get_qx(call.x + n).val)))
                /\ (h = 1 /\ Tabulated(call.x))
                   => /\ ~Raised(ret)
                      /\ ~Raised(npx(call.x, 1))
                      /\ FGe(ret.val, npx(call.x, 1).val)

C20_Witness ==
    /\ Returned("tpx") /\ call.n = 3
    /\ Tabulated(call.x) /\ call.x + 1 < LastAge
    /\ npx(call.x, 1).val = R(1, 4)
    /\ ret.val = R(5, 32)

(***************************************************************************)
(* C21: on a table of consecutive ages with finite lx, for a tabulated x   *)
(* and t > 0 with n the integer part of t, frac = t - n and x + n at or    *)
(* beyond the last tabulated age, tpx(x, t) is npx(x, n) times             *)
(* (1 - qx(last age)) ^ frac: the constant force acts over the fractional  *)
(* remainder only.                                                         *)
(***************************************************************************)
C21_ConstantForceOverFraction ==
    (/\ Returned("tpx") /\ call.n > 0
     /\ ConsecutiveAges /\ LxFinite /\ Tabulated(call.x)
     /\ call.x + (call.n \div 2) >= LastAge)
    => LET n == call.n \div 2
           base == npx(call.x, n)
           p_last == Sub(One, get_qx(LastAge).val)
       IN /\ ~Raised(ret) /\ ~Raised(base)
          /\ ret.val = Mul(base.val, PowHalf(p_last, call.n % 2))

(***************************************************************************)
(* C22: in every constructed table lx[0] = 1 and lx[i] is the product of   *)
(* px[i..end] over the product of px[0..end] at every index i, a number,   *)
(* and ages, qx, px, lx and dx have the same length; tables with a qx of 1 *)
(* included.                                                               *)
(***************************************************************************)
C22_LxCurve ==
    mt.ok
    => /\ Len(mt.ages) = Len(mt.qx) /\ Len(mt.qx) = Len(mt.px)
       /\ Len(mt.px) = Len(mt.lx) /\ Len(mt.lx) = Len(mt.dx)
       /\ FEq(mt.lx[1], One)
       /\ \A i \in DOMAIN mt.lx :
             /\ IsFinite(mt.lx[i])
             /\ mt.lx[i] = Div(SurvivalProduct(i, Len(mt.px)),
                               SurvivalProduct(1, Len(mt.px)))

(***************************************************************************)
(* C23: on a table of consecutive ages, for a tabulated age x and n >= 0,  *)
(* inside or beyond the table, nqx(x, n) + npx(x, n) = 1.                  *)
(***************************************************************************)
C23_NqxComplementsNpx ==
    (/\ Returned("nqx") /\ call.n >= 0
     /\ ConsecutiveAges /\ Tabulated(call.x))
    => LET p == npx(call.x, call.n)
       IN ~Raised(ret) /\ ~Raised(p) /\ FEq(Add(ret.val, p.val), One)

(***************************************************************************)
(* C24: on a table of consecutive ages with finite lx, the prospective     *)
(* reserves of whole life, term and endowment policies are >= 0 for a      *)
(* tabulated entry age x, a duration with x + duration tabulated (the last *)
(* tabulated age and a remaining term of 1 included), and a premium and a  *)
(* sum assured >= 0.                                                       *)
(***************************************************************************)
C24_ReserveNeverNegative ==
    (/\ pc = "returned"
     /\ call.op \in {"prospective_reserve_whole_life", "prospective_reserve_term",
                     "prospective_reserve_endowment"}
     /\ ConsecutiveAges /\ LxFinite
     /\ Tabulated(call.x) /\ Tabulated(call.x + call.duration)
     /\ FGe(call.annual_premium, Zero))
    => ~Raised(ret) /\ FGe(ret.val, Zero)

(***************************************************************************)
(* C25: endowment_assurance(x, n) = term_assurance(x, n) +                 *)
(* pure_endowment(x, n) for every table, age x and term n, where           *)
(* pure_endowment(x, n) = npx(x, n) * v^n and term_assurance(x, n) is      *)
(* assurance(x, n) of SurvivalFunctions on the same table and rate; it     *)
(* raises exactly when one of the two parts raises.                        *)
(***************************************************************************)
C25_EndowmentIsTermPlusPure ==
    Returned("endowment_assurance")
    => LET n == call.n
           v_n == IF n >= 0 THEN Pow(sf.v, n) ELSE Div(One, Pow(sf.v, -n))
           t == assurance(call.x, TRUE, n)
           p == npx(call.x, n)
       IN /\ term_assurance(call.x, n) = t
          /\ Raised(pure_endowment(call.x, n)) <=> Raised(p)
          /\ ~Raised(p) => pure_endowment(call.x, n).val = Mul(p.val, v_n)
          /\ Raised(ret) <=> (Raised(t) \/ Raised(p))
          /\ ~Raised(ret) => ret.val = Add(t.val, Mul(p.val, v_n))

C25_Witness ==
    /\ Returned("endowment_assurance") /\ call.n = 2 /\ Tabulated(call.x)
    /\ sf.v = Half
    /\ ~Raised(ret) /\ IsFinite(ret.val)
    /\ FGt(assurance(call.x, TRUE, 2).val, Zero)
    /\ FGt(npx(call.x, 2).val, Zero)
    /\ ret.val = Add(assurance(call.x, TRUE, 2).val, Mul(npx(call.x, 2).val, R(1, 4)))

(***************************************************************************)
(* C26: on a table of consecutive ages with finite lx, for a tabulated age *)
(* x and n >= 0 or omitted, 0 <= assurance(x, n) <= 1 (the interest rates  *)
(* of the model are >= 0).                                                 *)
(***************************************************************************)
C26_AssuranceIsAProbability ==
    (/\ Returned("assurance") /\ (~call.hasn \/ call.n >= 0)
     /\ ConsecutiveAges /\ LxFinite /\ Tabulated(call.x)
     /\ FGe(sf.i, Zero))
    => /\ ~Raised(ret)
       /\ FGe(ret.val, Zero) /\ FLe(ret.val, One)

(***************************************************************************)
(* C27: on a table of consecutive ages with finite lx, for a tabulated age *)
(* x and an integer t >= 0, x + t beyond the last tabulated age included,  *)
(* tpx(x, t) = npx(x, t).                                                  *)
(***************************************************************************)
C27_TpxAgreesWithNpx ==
    (/\ Returned("tpx") /\ call.n >= 0 /\ call.n % 2 = 0
     /\ ConsecutiveAges /\ LxFinite /\ Tabulated(call.x))
    => LET p == npx(call.x, call.n \div 2)
       IN ~Raised(ret) /\ ~Raised(p) /\ FEq(ret.val, p.val)

(***************************************************************************)
(* C28: for every constructed table, tables with a qx of 1 included, every *)
(* age x and every integer n, npx(x, n) returns a probability:             *)
(* 0 <= npx(x, n) <= 1, never NaN.                                         *)
(***************************************************************************)
C28_NpxIsAProbability ==
    Returned("npx")
    => /\ ~Raised(ret)
       /\ FGe(ret.val, Zero) /\ FLe(ret.val, One)

(***************************************************************************)
(* C29: for a tabulated age x with T the number of tabulated ages from x   *)
(* on, the whole-life values are the term values at the horizon:           *)
(* annuity_due(x) = annuity_due(x, T) and assurance(x) = assurance(x,      *)
(* T - 1); either both raise the same exception or both return the same    *)
(* value.                                                                  *)
(***************************************************************************)
C29_WholeLifeIsTermAtHorizon ==
    /\ (Returned("annuity_due") /\ ~call.hasn /\ Tabulated(call.x))
       => LET term == annuity_due(call.x, TRUE, AgesFrom(call.x))
          IN ret.exc = term.exc /\ ret.val = term.val
    /\ (Returned("assurance") /\ ~call.hasn /\ Tabulated(call.x))
       => LET term == assurance(call.x, TRUE, AgesFrom(call.x) - 1)
          IN ret.exc = term.exc /\ ret.val = term.val

C29_Witness ==
    /\ Returned("assurance") /\ ~call.hasn /\ Tabulated(call.x)
    /\ AgesFrom(call.x) = 3 /\ sf.v = Half
    /\ ~Raised(ret) /\ FGt(ret.val, Zero)
    /\ ret.val # assurance(call.x, TRUE, 1).val
    /\ ret.val = assurance(call.x, TRUE, 2).val

(***************************************************************************)
(* C30: on a table of consecutive ages, for a tabulated x and m, n >= 0    *)
(* with x + m + n at most the last tabulated age,                          *)
(* npx(x, m + n) = npx(x, m) * npx(x + m, n).                              *)
(***************************************************************************)
C30_SurvivalIsMultiplicative ==
    (/\ Returned("npx") /\ ConsecutiveAges /\ Tabulated(call.x)
     /\ call.n >= 0 /\ call.x + call.n <= LastAge)
    => \A m \in 0..call.n :
          LET a == npx(call.x, m)
              b == npx(call.x + m, call.n - m)
          IN /\ ~Raised(ret) /\ ~Raised(a) /\ ~Raised(b)
             /\ FEq(ret.val, Mul(a.val, b.val))

C30_Witness ==
    /\ Returned("npx") /\ ConsecutiveAges /\ Tabulated(call.x)
    /\ call.n = 2 /\ call.x + 2 <= LastAge
    /\ npx(call.x, 1).val = R(1, 4) /\ npx(call.x + 1, 1).val = R(1, 4)
    /\ ret.val = R(1, 16)

====
